---- MODULE Spec2Model ----
(***************************************************************************)
(* A model of src/main.py (kayengar/AlgoTrader): the daily batch run that  *)
(* loads the pickle cache, resets it when its date differs from today,     *)
(* fetches or reuses each S&P 500 symbol's price series, computes RSI and  *)
(* the 50/200-bar moving averages, and places at most one market order     *)
(* per symbol at the Alpaca gateway.                                       *)
(*                                                                         *)
(* Money is in whole dollars, time in whole hours, a date is a day number. *)
(* Prices are integers, so every comparison of an average or of the RSI    *)
(* is made exactly by cross-multiplication (float rounding is not          *)
(* modelled).  NaN is the sentinel below; a comparison with NaN is FALSE,  *)
(* as in pandas.                                                           *)
(***************************************************************************)
EXTENDS Integers, Sequences, FiniteSets, TLC

\* ------------------------------------------------------------ constants
RISK_NUM == 2
RISK_DEN == 100
LONG_TERM_HOLD_PERIOD == 365
COOLDOWN_PERIOD_HOURS == 720
RSI_WINDOW == 14
SHORT_WINDOW == 50
LONG_WINDOW == 200
MIN_BARS == 200
RSI_OVERSOLD == 30
RSI_OVERBOUGHT == 70
HOURS_PER_DAY == 24

\* ------------------------------------------------------------ bounds
\* how many times the wall clock is advanced between runs
MaxAdvances == 1
\* how many runs are started in all
MaxRuns == 2
\* the wall clock (hours) when the first run starts
StartHour == 800

NaN == -1
NoTime == -1
NoDate == -1

\* ------------------------------------------------------------ the universe
\* A symbol is the sequence of its characters, so that str.startswith is
\* computed and not assumed.
SymA == <<"A">>
SymM == <<"M", "M", "M">>
SymBRK == <<"B", "R", "K", ".", "B">>

\* get_sp500_symbols(): the 'Symbol' column of the constituents table, in
\* table order; the table lists every symbol once.
SP500 == <<SymA, SymBRK, SymM>>

Symbols == {SP500[k] : k \in 1..Len(SP500)}

startswith(s, prefix) ==
    /\ Len(s) >= Len(prefix)
    /\ SubSeq(s, 1, Len(prefix)) = prefix

\* a mutant: the whole name is compared, not its beginning
ExcludedExact(stock) ==
    \/ stock = <<"B", "R", "K">>
    \/ stock = <<"B", "F">>

\* main: stock.startswith("BRK") or stock.startswith("BF")
Excluded(stock) ==
    \/ startswith(stock, <<"B", "R", "K">>)
    \/ startswith(stock, <<"B", "F">>)

\* ------------------------------------------------------------ price series
\* What yf.download can return: a frame of daily bars.  A frame is named by
\* its shape and its number of bars; Close gives its closing prices.  j is the
\* distance of a bar from the latest bar (j = 0 is the latest).
\*   dip    a long rise, then 14 falling bars with one small rebound, ends at 45
\*   spike  a long decline, then 14 rising bars, ends at 130
\*   rise   a steady rise
\*   flat   a constant price
\*   gap    a steady rise with one missing (NaN) close 10 bars ago
Frames ==
    { [shape |-> "dip", len |-> 250], [shape |-> "spike", len |-> 250],
      [shape |-> "rise", len |-> 200], [shape |-> "flat", len |-> 250],
      [shape |-> "gap", len |-> 250], [shape |-> "dip", len |-> 199] }

\* the frames the data source serves for a ticker
Served(ticker) ==
    IF ticker = SymA
    THEN { [shape |-> "dip", len |-> 250], [shape |-> "dip", len |-> 199],
           [shape |-> "flat", len |-> 250] }
    ELSE { [shape |-> "spike", len |-> 250], [shape |-> "gap", len |-> 250],
           [shape |-> "rise", len |-> 200] }

CloseFromEnd(shape, j) ==
    CASE shape = "dip" ->
            IF j >= 14 THEN 120 - (j \div 4)
            ELSE IF j = 7 THEN 72 ELSE 45 + 5 * j
      [] shape = "spike" ->
            IF j >= 14 THEN 60 + (j \div 4) ELSE 130 - 5 * j
      [] shape = "rise" -> 120 - (j \div 4)
      [] shape = "flat" -> 50
      [] shape = "gap" -> IF j = 10 THEN NaN ELSE 120 - (j \div 4)

\* the Close column: bar i of 1..len, ascending by date
Close(f, i) == CloseFromEnd(f.shape, f.len - i)

IsNaN(x) == x = NaN

\* data['Close'].diff(1) at bar i is defined: not at the first bar, not next to
\* a NaN close
DeltaDefined(f, i) == ~(i = 1 \/ IsNaN(Close(f, i)) \/ IsNaN(Close(f, i - 1)))

\* delta.where(delta > 0, 0.0): a NaN delta fails the test and becomes 0.0
Gain(f, i) ==
    IF DeltaDefined(f, i) /\ Close(f, i) - Close(f, i - 1) > 0
    THEN Close(f, i) - Close(f, i - 1) ELSE 0

\* -delta.where(delta < 0, 0.0)
Loss(f, i) ==
    IF DeltaDefined(f, i) /\ Close(f, i) - Close(f, i - 1) < 0
    THEN Close(f, i - 1) - Close(f, i) ELSE 0

\* bar i of a column of the frame
Column(f, col, i) ==
    CASE col = "Close" -> Close(f, i)
      [] col = "gain" -> Gain(f, i)
      [] col = "loss" -> Loss(f, i)

\* the sum of bars lo..hi of a column whose values are >= 0, counted as the
\* number of pairs <<i, k>> with 1 <= k <= value of bar i
SumOver(f, col, lo, hi) ==
    Cardinality({p \in (lo..hi) \X (1..150) : p[2] <= Column(f, col, p[1])})

\* calculate_rsi at the latest bar.  The rolling means need 14 observations
\* (min_periods = window); rs = avg_gain / avg_loss is NaN for 0/0 and inf for
\* x/0, and 100 - 100/(1 + inf) = 100.  The value is the fraction num/den.
calculate_rsi(f) ==
    IF f.len < RSI_WINDOW THEN [nan |-> TRUE, num |-> 0, den |-> 1]
    ELSE
        LET g == SumOver(f, "gain", f.len - RSI_WINDOW + 1, f.len)
            l == SumOver(f, "loss", f.len - RSI_WINDOW + 1, f.len)
        IN  IF g = 0 /\ l = 0 THEN [nan |-> TRUE, num |-> 0, den |-> 1]
            ELSE IF l = 0 THEN [nan |-> FALSE, num |-> 100, den |-> 1]
            ELSE [nan |-> FALSE, num |-> 100 * g, den |-> g + l]

\* data['Close'].rolling(window).mean() at the latest bar: NaN unless the
\* window holds `window` non-NaN closes.  The value is the fraction num/den.
RollingMean(f, window) ==
    IF f.len < window
       \/ \E i \in (f.len - window + 1)..f.len : IsNaN(Close(f, i))
    THEN [nan |-> TRUE, num |-> 0, den |-> 1]
    ELSE [nan |-> FALSE,
          num |-> SumOver(f, "Close", f.len - window + 1, f.len),
          den |-> window]

\* calculate_rsi then calculate_moving_averages: the latest row of the frame
calculate_moving_averages(f) ==
    [RSI |-> calculate_rsi(f),
     MA50 |-> RollingMean(f, SHORT_WINDOW),
     MA200 |-> RollingMean(f, LONG_WINDOW),
     Close |-> IF f.len = 0 THEN NaN ELSE Close(f, f.len),
     rows |-> f.len]

\* the latest rows of every frame the data source can return
\* (@@ makes the table explicit, so that it is computed once)
Latest == [f \in Frames |-> calculate_moving_averages(f)] @@ << >>

\* comparisons of fractions; FALSE when either side is NaN
FracGT(a, b) == ~a.nan /\ ~b.nan /\ a.num * b.den > b.num * a.den
FracLT(a, b) == ~a.nan /\ ~b.nan /\ a.num * b.den < b.num * a.den
Whole(n) == [nan |-> FALSE, num |-> n, den |-> 1]


\* ------------------------------------------------------------ the cache
\* The cache is a dict: the key 'date' (absent: NoDate) and one key per ticker,
\* each holding a dict with the key 'data'.
EmptyStore == [date |-> NoDate, entries |-> << >>]

\* CACHE_FILE: whether it exists, whether its bytes are a truncated pickle
\* (torn), and the store a complete pickle holds
NoFile == [exists |-> FALSE, torn |-> FALSE, store |-> EmptyStore]

\* CACHE_FILE after open(CACHE_FILE, 'wb') when pickle.dump did not complete:
\* the old bytes are gone, the new ones end before the STOP opcode
TornFile == [exists |-> TRUE, torn |-> TRUE, store |-> EmptyStore]

\* pickle.load(f) raises (EOFError / UnpicklingError) on a truncated pickle;
\* load_cache does not catch it
UnpicklingError(f) == f.exists /\ f.torn

\* load_cache(): the unpickled file, or {} when CACHE_FILE does not exist
load_cache(f) == IF f.exists THEN f.store ELSE EmptyStore

\* save_cache(cache): CACHE_FILE after pickle.dump
save_cache(c) == [exists |-> TRUE, torn |-> FALSE, store |-> c]

\* a mutant: every call resets the store
clear_cache_always(c, date_str) == [date |-> date_str, entries |-> << >>]

\* a mutant: a stale store is stamped with the new date and keeps its entries
clear_cache_restamp(c, date_str) == [c EXCEPT !.date = date_str]

\* a mutant: a stale store is emptied and gets no marker
clear_cache_no_marker(c, date_str) ==
    IF c.date = NoDate \/ c.date # date_str THEN EmptyStore ELSE c

clear_cache_if_needed(c, date_str) ==
    IF c.date = NoDate \/ c.date # date_str
    THEN [date |-> date_str, entries |-> << >>]
    ELSE c

\* a mutant: the lookup never finds the stored series
CacheHitNever(ticker, c) == FALSE

\* fetch_stock_data: ticker in cache and 'data' in cache[ticker]
CacheHit(ticker, c) ==
    /\ ticker \in DOMAIN c.entries
    /\ "data" \in DOMAIN c.entries[ticker]

\* datetime.date.today(): the day the hour falls on
DateOf(hour) == hour \div HOURS_PER_DAY

\* ------------------------------------------------------------ the gateway
\* A datetime is an hour count and whether it carries a time zone; None is
\* NoDatetime.  Subtracting an aware and a naive datetime raises TypeError.
NoDatetime == [t |-> NoTime, aware |-> FALSE]
Truthy(dt) == dt.t # NoTime
\* datetime.datetime.now(tz=tz.UTC)
NowUTC(hour) == [t |-> hour, aware |-> TRUE]
\* datetime.datetime.now()
NowNaive(hour) == [t |-> hour, aware |-> FALSE]
\* parser.parse(filled_at): the gateway's timestamps are RFC 3339 with a zone
ParseFilledAt(hour) == [t |-> hour, aware |-> TRUE]
CanSubtract(a, b) == a.aware = b.aware

\* GET /v2/account: the responses the gateway can give.  A field is << >>
\* when the response lacks it, <<x>> when it holds x.
AccountResponses ==
    { [code |-> 200, cash |-> <<10000>>, buying_power |-> <<20000>>],
      [code |-> 200, cash |-> <<100>>, buying_power |-> <<200>>],
      [code |-> 200, cash |-> <<0>>, buying_power |-> <<0>>],
      [code |-> 200, cash |-> << >>, buying_power |-> <<10000>>],
      [code |-> 200, cash |-> << >>, buying_power |-> << >>],
      [code |-> 401, cash |-> << >>, buying_power |-> << >>] }

\* the responses of GET /v2/orders and GET /v2/positions/{ticker}: served, or
\* refused with an error status
QueryResponses == {"served", "refused"}

\* get_account_balance(): raises on a status other than 200 and when neither
\* cash nor buying_power is present
get_account_balance(resp) ==
    IF resp.code # 200 THEN [raised |-> TRUE, balance |-> 0]
    ELSE IF resp.cash # << >> THEN [raised |-> FALSE, balance |-> resp.cash[1]]
    ELSE IF resp.buying_power # << >>
         THEN [raised |-> FALSE, balance |-> resp.buying_power[1]]
    ELSE [raised |-> TRUE, balance |-> 0]

\* a mutant: the quotient is rounded up
calculate_shares_round_up(current_price, balance) ==
    (balance * RISK_NUM + RISK_DEN * current_price - 1)
        \div (RISK_DEN * current_price)

\* calculate_shares_to_buy: int((balance * 0.02) // current_price)
calculate_shares_to_buy(current_price, balance) ==
    (balance * RISK_NUM) \div (RISK_DEN * current_price)

\* get_last_buy_time(ticker): None on an error status; else filled_at of the
\* most recent filled buy order of the ticker, None when there is none.
\* filled is the hour of that order at the broker (NoTime: none).
get_last_buy_time(resp, filled) ==
    IF resp # "served" THEN NoDatetime
    ELSE IF filled = NoTime THEN NoDatetime
    ELSE ParseFilledAt(filled)

\* get_position(ticker): qty on 200; (0, 0) on 404 (no position) and on
\* any other status.  held is the quantity at the broker.
get_position(resp, held) ==
    LET code == IF resp # "served" THEN 500 ELSE IF held = 0 THEN 404 ELSE 200
    IN  IF code = 200 THEN held ELSE 0

\* a mutant: a rejected order is submitted again
place_buy_order_retry(ticker, quantity, accepted) ==
    LET o == [symbol |-> ticker, qty |-> quantity, side |-> "buy"]
    IN  [posted |-> IF accepted THEN <<o>> ELSE <<o, o>>]

\* place_buy_order: one POST /v2/orders, whatever the response
place_buy_order(ticker, quantity, accepted) ==
    [posted |-> <<[symbol |-> ticker, qty |-> quantity, side |-> "buy"]>>]

\* place_sell_order: the holding period is computed first, from the naive
\* datetime.now(); then one POST /v2/orders
place_sell_order(ticker, quantity, purchase_date, hour) ==
    IF Truthy(purchase_date) /\ ~CanSubtract(NowNaive(hour), purchase_date)
    THEN [raised |-> TRUE, warned |-> FALSE, posted |-> << >>]
    ELSE
        LET holding_period ==
                IF Truthy(purchase_date)
                THEN (hour - purchase_date.t) \div HOURS_PER_DAY
                ELSE 0
        IN  [raised |-> FALSE,
             warned |-> holding_period < LONG_TERM_HOLD_PERIOD,
             posted |-> <<[symbol |-> ticker, qty |-> quantity, side |-> "sell"]>>]

\* a mutant: the row count is checked, the NaN indicators are not
InsufficientDataRowsOnly(latest) == latest.rows < MIN_BARS

\* execute_strategy, lines 219-230: too few rows, or a NaN indicator
InsufficientData(latest) ==
    \/ latest.rows < MIN_BARS
    \/ latest.MA50.nan \/ latest.MA200.nan \/ latest.RSI.nan

\* a mutant: the comparison is <= instead of <
CooldownActiveInclusive(last_buy_time, hour) ==
    /\ Truthy(last_buy_time)
    /\ hour - last_buy_time.t <= COOLDOWN_PERIOD_HOURS

\* execute_strategy, lines 243-247 (both datetimes are aware here)
CooldownActive(last_buy_time, hour) ==
    /\ Truthy(last_buy_time)
    /\ hour - last_buy_time.t < COOLDOWN_PERIOD_HOURS

\* a mutant: the RSI is not looked at
BuySignalNoRSI(latest, position_qty) ==
    /\ FracGT(latest.MA50, latest.MA200)
    /\ position_qty = 0

\* line 250
BuySignal(latest, position_qty) ==
    /\ FracGT(latest.MA50, latest.MA200)
    /\ FracLT(latest.RSI, Whole(RSI_OVERSOLD))
    /\ position_qty = 0

\* line 260
SellSignal(latest, position_qty) ==
    /\ FracLT(latest.MA50, latest.MA200)
    /\ FracGT(latest.RSI, Whole(RSI_OVERBOUGHT))
    /\ position_qty > 0

\* ------------------------------------------------------------ the state
VARIABLES
    now,          \* the wall clock, in hours
    advances,     \* how often the clock was advanced
    runs,         \* how many runs were started
    pc,           \* where the process is: idle (no process), load, clear,
                  \* loop, exec, exit
    status,       \* how the process ended: running, success, aborted
    idx,          \* main's loop position in stocks
    today_str,    \* main's today_str
    cache,        \* main's cache dict
    file,         \* CACHE_FILE
    position,     \* broker: held quantity per symbol
    lastBuy,      \* broker: hour of the latest filled buy per symbol
    open,         \* broker: accepted orders not yet filled, per symbol
    remoteCalls,  \* yf.download calls per symbol on the current date
    orders,       \* the POSTs to /v2/orders made by this process
    sms,          \* the send_sms calls made by this process
    last,         \* the latest execute_strategy call of this process
    trace         \* the steps this process has taken

vars ==
    <<now, advances, runs, pc, status, idx, today_str, cache, file, position,
      lastBuy, open, remoteCalls, orders, sms, last, trace>>

broker == <<position, lastBuy, open>>
clock == <<now, advances, runs>>

Tradable == {s \in Symbols : ~Excluded(s)}

NoCall ==
    [symbol |-> << >>, frame |-> << >>, exit |-> "none",
     raised |-> FALSE, balance |-> << >>, last_buy_time |-> NoDatetime,
     position_qty |-> << >>, posted |-> << >>, sent |-> << >>,
     warned |-> FALSE, hour |-> NoTime, refused |-> {}]

\* what one call of execute_strategy does, given the gateway's responses
Outcome(exit, raised, balance, lbt, qty, posted, sent, warned) ==
    [exit |-> exit, raised |-> raised, balance |-> balance,
     last_buy_time |-> lbt, position_qty |-> qty, posted |-> posted,
     sent |-> sent, warned |-> warned]

execute_strategy(ticker, frame, acctResp, ordersResp, posResp, accepted) ==
    LET latest == Latest[frame]
        acct == get_account_balance(acctResp)
        balance == acct.balance
        last_buy_time == get_last_buy_time(ordersResp, lastBuy[ticker])
        position_qty == get_position(posResp, position[ticker])
    IN  IF InsufficientData(latest)
        THEN Outcome("nodata", FALSE, << >>, NoDatetime, << >>, << >>, << >>, FALSE)
        ELSE IF acct.raised
        THEN Outcome("raise", TRUE, << >>, NoDatetime, << >>, << >>, << >>, FALSE)
        ELSE IF balance <= 0
        THEN Outcome("alert", FALSE, <<balance>>, NoDatetime, << >>, << >>,
                     <<[kind |-> "alert", symbol |-> << >>, qty |-> 0]>>, FALSE)
        ELSE IF Truthy(last_buy_time) /\ ~CanSubtract(NowUTC(now), last_buy_time)
        THEN Outcome("raise", TRUE, <<balance>>, last_buy_time, <<position_qty>>,
                     << >>, << >>, FALSE)
        ELSE IF CooldownActive(last_buy_time, now)
        THEN Outcome("cooldown", FALSE, <<balance>>, last_buy_time,
                     <<position_qty>>, << >>, << >>, FALSE)
        ELSE IF BuySignal(latest, position_qty)
        THEN LET shares_to_buy == calculate_shares_to_buy(latest.Close, balance)
             IN  IF shares_to_buy > 0
                 THEN Outcome("buy", FALSE, <<balance>>, last_buy_time,
                              <<position_qty>>,
                              place_buy_order(ticker, shares_to_buy, accepted).posted,
                              <<[kind |-> "buy", symbol |-> ticker,
                                 qty |-> shares_to_buy]>>, FALSE)
                 ELSE Outcome("nofunds", FALSE, <<balance>>, last_buy_time,
                              <<position_qty>>, << >>, << >>, FALSE)
        ELSE IF SellSignal(latest, position_qty)
        THEN LET r == place_sell_order(ticker, position_qty, last_buy_time, now)
             IN  IF r.raised
                 THEN Outcome("raise", TRUE, <<balance>>, last_buy_time,
                              <<position_qty>>, << >>, << >>, FALSE)
                 ELSE Outcome("sell", FALSE, <<balance>>, last_buy_time,
                              <<position_qty>>, r.posted,
                              <<[kind |-> "sell", symbol |-> ticker,
                                 qty |-> position_qty]>>, r.warned)
        ELSE Outcome("noaction", FALSE, <<balance>>, last_buy_time,
                     <<position_qty>>, << >>, << >>, FALSE)

Step(name, symbol) == [ev |-> name, symbol |-> symbol]

\* ------------------------------------------------------------ the run
Init ==
    /\ now = StartHour
    /\ advances = 0
    /\ runs = 0
    /\ pc = "idle"
    /\ status = "none"
    /\ idx = 1
    /\ today_str = NoDate
    /\ cache = EmptyStore
    /\ file = NoFile
    \* the account when the program is first run: 50 shares of MMM bought at
    \* hour 0; A not held, either never bought or bought at hour 0 and sold
    /\ position = [s \in Tradable |-> IF s = SymM THEN 50 ELSE 0]
    /\ lastBuy \in {[s \in Tradable |-> IF s = SymM THEN 0 ELSE NoTime],
                    [s \in Tradable |-> 0]}
    /\ open = [s \in Tradable |-> << >>]
    /\ remoteCalls = [s \in Tradable |-> 0]
    /\ orders = << >>
    /\ sms = << >>
    /\ last = NoCall
    /\ trace = << >>

\* the process starts: get_sp500_symbols() returns the table's symbols
StartRun ==
    /\ pc = "idle"
    /\ runs < MaxRuns
    /\ runs' = runs + 1
    /\ pc' = "load"
    /\ status' = "running"
    /\ idx' = 1
    /\ trace' = <<Step("universe", << >>)>>
    /\ UNCHANGED <<now, advances, today_str, cache, file, broker, remoteCalls,
                   orders, sms, last>>

\* the process starts and get_sp500_symbols() raises
UniverseFails ==
    /\ pc = "idle"
    /\ runs < MaxRuns
    /\ runs' = runs + 1
    /\ pc' = "exit"
    /\ status' = "aborted"
    /\ trace' = << >>
    /\ UNCHANGED <<now, advances, idx, today_str, cache, file, broker,
                   remoteCalls, orders, sms, last>>

\* cache = load_cache(); an exception of pickle.load ends the process
LoadCache ==
    /\ pc = "load"
    /\ IF UnpicklingError(file)
       THEN /\ cache' = cache
            /\ pc' = "exit"
            /\ status' = "aborted"
       ELSE /\ cache' = load_cache(file)
            /\ pc' = "clear"
            /\ status' = status
    /\ trace' = Append(trace, Step("load", << >>))
    /\ UNCHANGED <<clock, idx, today_str, file, broker, remoteCalls,
                   orders, sms, last>>

\* today_str = date.today()...; cache = clear_cache_if_needed(cache, today_str)
ClearCache ==
    /\ pc = "clear"
    /\ today_str' = DateOf(now)
    /\ cache' = clear_cache_if_needed(cache, today_str')
    /\ pc' = "loop"
    /\ trace' = Append(trace, Step("clear", << >>))
    /\ UNCHANGED <<clock, status, idx, file, broker, remoteCalls, orders, sms,
                   last>>

\* the loop's `continue` for a symbol on the denylist
SkipExcluded ==
    /\ pc = "loop"
    /\ idx <= Len(SP500)
    /\ Excluded(SP500[idx])
    /\ idx' = idx + 1
    /\ trace' = Append(trace, Step("skip", SP500[idx]))
    /\ UNCHANGED <<clock, pc, status, today_str, cache, file, broker,
                   remoteCalls, orders, sms, last>>

\* a mutant: the miss path does not save the cache
StoreFetchedNoSave(ticker, frame) ==
    /\ cache' = [cache EXCEPT !.entries =
                    (ticker :> [data |-> [frame |-> frame, fetched |-> DateOf(now),
                                          enriched |-> FALSE]]) @@ @]
    /\ file' = file

\* fetch_stock_data, lines 74-80: store the fresh frame and save the cache
StoreFetched(ticker, frame) ==
    /\ cache' = [cache EXCEPT !.entries =
                    (ticker :> [data |-> [frame |-> frame, fetched |-> DateOf(now),
                                          enriched |-> FALSE]]) @@ @]
    /\ file' = save_cache(cache')

\* stock_data = fetch_stock_data(stock, cache, today_str, period="250d")
FetchStockData ==
    /\ pc = "loop"
    /\ idx <= Len(SP500)
    /\ ~Excluded(SP500[idx])
    /\ LET ticker == SP500[idx]
       IN  IF CacheHit(ticker, cache)
           THEN /\ trace' = Append(trace, Step("hit", ticker))
                /\ UNCHANGED <<cache, file, remoteCalls>>
           ELSE /\ \E frame \in Served(ticker) : StoreFetched(ticker, frame)
                /\ remoteCalls' = [remoteCalls EXCEPT ![ticker] = @ + 1]
                /\ trace' = Append(trace, Step("fetch", ticker))
    /\ pc' = "exec"
    /\ UNCHANGED <<clock, status, idx, today_str, broker, orders, sms, last>>

\* execute_strategy(stock, stock_data).  stock_data is the object stored in
\* the cache, and calculate_rsi / calculate_moving_averages add their columns
\* to it in place.
ExecuteStrategy ==
    /\ pc = "exec"
    /\ \E acctResp \in AccountResponses, ordersResp \in QueryResponses,
          posResp \in QueryResponses, accepted \in BOOLEAN :
        LET ticker == SP500[idx]
            stock_data == cache.entries[ticker].data
            r == execute_strategy(ticker, stock_data.frame, acctResp,
                                  ordersResp, posResp, accepted)
        IN  /\ cache' = [cache EXCEPT !.entries[ticker].data.enriched = TRUE]
            /\ last' = r @@ [symbol |-> ticker, frame |-> stock_data.frame,
                             hour |-> now,
                             refused |->
                                IF r.position_qty = << >> THEN {}
                                ELSE {q \in {"orders", "position"} :
                                        \/ q = "orders" /\ ordersResp # "served"
                                        \/ q = "position" /\ posResp # "served"}]
            /\ orders' = orders \o r.posted
            /\ sms' = sms \o r.sent
            /\ open' = IF accepted /\ r.posted # << >>
                       THEN [open EXCEPT ![ticker] =
                                @ \o <<r.posted[1] @@ [submitted_at |-> now]>>]
                       ELSE open
            /\ IF r.raised
               THEN /\ pc' = "exit"
                    /\ status' = "aborted"
                    /\ idx' = idx
                    /\ trace' = Append(trace, Step("raise", ticker))
               ELSE /\ pc' = "loop"
                    /\ status' = status
                    /\ idx' = idx + 1
                    /\ trace' = Append(trace, Step("eval", ticker))
    /\ UNCHANGED <<clock, today_str, file, position, lastBuy, remoteCalls>>

\* save_cache(cache) after the loop, and the process ends
FinalSave ==
    /\ pc = "loop"
    /\ idx > Len(SP500)
    /\ file' = save_cache(cache)
    /\ pc' = "exit"
    /\ status' = "success"
    /\ trace' = Append(trace, Step("save", << >>))
    /\ UNCHANGED <<clock, idx, today_str, cache, broker, remoteCalls, orders,
                   sms, last>>

\* the process dies inside save_cache, after open(CACHE_FILE, 'wb') has
\* truncated the file and before pickle.dump has written the whole store: in
\* the save of fetch_stock_data (the download is done) or in the final save
CrashInSave ==
    /\ pc = "loop"
    /\ \/ /\ idx <= Len(SP500)
          /\ ~Excluded(SP500[idx])
          /\ ~CacheHit(SP500[idx], cache)
          /\ remoteCalls' = [remoteCalls EXCEPT ![SP500[idx]] = @ + 1]
          /\ trace' = Append(trace, Step("crash", SP500[idx]))
       \/ /\ idx > Len(SP500)
          /\ remoteCalls' = remoteCalls
          /\ trace' = Append(trace, Step("crash", << >>))
    /\ file' = TornFile
    /\ pc' = "exit"
    /\ status' = "crashed"
    /\ UNCHANGED <<clock, idx, today_str, cache, broker, orders, sms, last>>

\* the process is gone: its memory with it
EndProcess ==
    /\ pc = "exit"
    /\ pc' = "idle"
    /\ status' = "none"
    /\ idx' = 1
    /\ today_str' = NoDate
    /\ cache' = EmptyStore
    /\ orders' = << >>
    /\ sms' = << >>
    /\ last' = NoCall
    /\ trace' = << >>
    /\ UNCHANGED <<clock, file, broker, remoteCalls>>

\* the broker fills the oldest open order of a symbol
BrokerFill ==
    /\ pc = "idle"
    /\ \E s \in Tradable :
        /\ open[s] # << >>
        /\ LET o == Head(open[s])
           IN  IF o.side = "buy"
               THEN /\ position' = [position EXCEPT ![s] = @ + o.qty]
                    /\ lastBuy' = [lastBuy EXCEPT ![s] = now]
               ELSE /\ position' = [position EXCEPT ![s] =
                                       IF @ > o.qty THEN @ - o.qty ELSE 0]
                    /\ lastBuy' = lastBuy
        /\ open' = [open EXCEPT ![s] = Tail(@)]
    /\ UNCHANGED <<clock, pc, status, idx, today_str, cache, file, remoteCalls,
                   orders, sms, last, trace>>

\* time passes between two runs
Advance ==
    /\ pc = "idle"
    /\ advances < MaxAdvances
    /\ \E dt \in {100, COOLDOWN_PERIOD_HOURS} :
        /\ now' = now + dt
        /\ remoteCalls' = IF DateOf(now') # DateOf(now)
                          THEN [s \in Tradable |-> 0]
                          ELSE remoteCalls
    /\ advances' = advances + 1
    /\ runs' = runs
    /\ UNCHANGED <<pc, status, idx, today_str, cache, file, broker, orders, sms,
                   last, trace>>

Next ==
    \/ StartRun
    \/ UniverseFails
    \/ LoadCache
    \/ ClearCache
    \/ SkipExcluded
    \/ FetchStockData
    \/ ExecuteStrategy
    \/ FinalSave
    \/ CrashInSave
    \/ EndProcess
    \/ BrokerFill
    \/ Advance

Spec == Init /\ [][Next]_vars
\* ------------------------------------------------------------ the claims
LastStep == IF trace = << >> THEN Step("none", << >>) ELSE trace[Len(trace)]
Called == last.symbol # << >>
LastRow == Latest[last.frame]
OrdersFor(s) == {k \in DOMAIN orders : orders[k].symbol = s}
Alerts == {k \in DOMAIN sms : sms[k].kind = "alert"}
\* the latest call passed the data and the balance gate
PastBalanceGate ==
    /\ Called
    /\ LastRow.rows >= 200
    /\ ~LastRow.MA50.nan /\ ~LastRow.MA200.nan /\ ~LastRow.RSI.nan
    /\ last.balance # << >>
    /\ last.balance[1] > 0
\* ... and the cooldown gate
PastCooldownGate ==
    /\ PastBalanceGate
    /\ \/ last.last_buy_time.t = NoTime
       \/ last.hour - last.last_buy_time.t >= 720
\* 50_MA > 200_MA and RSI < 30 and position_qty == 0, on the latest row
BuyConditionMet ==
    /\ LastRow.MA50.num * LastRow.MA200.den > LastRow.MA200.num * LastRow.MA50.den
    /\ LastRow.RSI.num < 30 * LastRow.RSI.den
    /\ last.position_qty = <<0>>
\* 50_MA < 200_MA and RSI > 70 and position_qty > 0
SellConditionMet ==
    /\ LastRow.MA50.num * LastRow.MA200.den < LastRow.MA200.num * LastRow.MA50.den
    /\ LastRow.RSI.num > 70 * LastRow.RSI.den
    /\ last.position_qty # << >>
    /\ last.position_qty[1] > 0

\* the symbol's name starts with "BRK" or with "BF"
OnDenylist(s) ==
    \/ Len(s) >= 3 /\ SubSeq(s, 1, 3) = <<"B", "R", "K">>
    \/ Len(s) >= 2 /\ SubSeq(s, 1, 2) = <<"B", "F">>

\* C1: on one date the data source is asked for a symbol at most once, and
\* after any fetch_stock_data call it has been asked exactly once: every call
\* but the first is served from the cache.
C1_OneRemoteFetchPerEpoch ==
    /\ \A s \in Tradable : remoteCalls[s] <= 1
    /\ pc = "exec" =>
        /\ remoteCalls[SP500[idx]] = 1
        /\ SP500[idx] \in DOMAIN cache.entries

\* a second run on the same date took the series of A from the cache
C1_Witness ==
    /\ runs = 2
    /\ pc = "exec"
    /\ LastStep = Step("hit", SymA)
    /\ remoteCalls[SymA] = 1

\* C2: clear_cache_if_needed returns a store holding only the marker d when
\* the stored marker is absent or differs from d, and the same store
\* otherwise; no other step of a process drops or changes a stored series, and
\* the file loses an entry only when its marker changes.
C2_ClearStep ==
    pc = "clear" =>
        /\ cache'.date = DateOf(now)
        /\ (cache.date = NoDate \/ cache.date # DateOf(now))
                => DOMAIN cache'.entries = {}
        /\ (cache.date # NoDate /\ cache.date = DateOf(now))
                => cache' = cache

C2_OtherSteps ==
    (pc \in {"loop", "exec"} /\ pc' # "idle") =>
        /\ cache'.date = cache.date
        /\ \A s \in DOMAIN cache.entries :
            /\ s \in DOMAIN cache'.entries
            /\ cache'.entries[s].data.frame = cache.entries[s].data.frame
            /\ cache'.entries[s].data.fetched = cache.entries[s].data.fetched

C2_FileSteps ==
    (file.exists /\ file'.store.date = file.store.date) =>
        \A s \in DOMAIN file.store.entries :
            /\ s \in DOMAIN file'.store.entries
            /\ file'.store.entries[s].data.frame = file.store.entries[s].data.frame

C2_EpochReset == [][C2_ClearStep /\ C2_OtherSteps /\ C2_FileSteps]_vars

\* a store stamped with an earlier date was loaded and has just been reset
C2_Witness ==
    /\ pc = "loop"
    /\ LastStep = Step("clear", << >>)
    /\ file.exists
    /\ file.store.date # today_str
    /\ DOMAIN file.store.entries # {}
    /\ cache = [date |-> today_str, entries |-> << >>]

\* C3: once the store has been checked against today's date, its marker is
\* today's date and every series in it was fetched today, so a cache hit never
\* returns a series of another date; the same holds of the file and its marker.
C3_EpochInvariant ==
    /\ pc \in {"loop", "exec"} =>
        /\ cache.date = DateOf(now)
        /\ \A s \in DOMAIN cache.entries :
            cache.entries[s].data.fetched = DateOf(now)
    /\ \A s \in DOMAIN file.store.entries :
        file.store.entries[s].data.fetched = file.store.date

\* a run on a later date takes the series of M from the cache, where a run of
\* that date had stored it
C3_Witness ==
    /\ advances = 1
    /\ pc = "exec"
    /\ LastStep = Step("hit", SymM)
    /\ cache.entries[SymM].data.fetched = DateOf(now)
    /\ DateOf(now) # DateOf(StartHour)

\* C4: a symbol whose series has fewer than 200 bars, or whose latest bar has
\* a NaN RSI, 50-bar or 200-bar average, gets no buy order, no sell order and
\* no notification, and its evaluation returns normally.
C4_InsufficientDataHolds ==
    (/\ Called
     /\ \/ LastRow.rows < 200
        \/ LastRow.RSI.nan \/ LastRow.MA50.nan \/ LastRow.MA200.nan)
    => /\ last.posted = << >>
       /\ last.sent = << >>
       /\ ~last.raised
       /\ \A k \in DOMAIN orders : orders[k].symbol # last.symbol
       /\ \A k \in DOMAIN sms : sms[k].symbol # last.symbol

\* A was evaluated on 199 bars whose RSI (under 30) and 50-bar average are
\* defined, M on 250 bars with a NaN average: neither got an order
C4_Witness ==
    /\ Called
    /\ last.symbol = SymM
    /\ last.frame = [shape |-> "gap", len |-> 250]
    /\ cache.entries[SymA].data.frame = [shape |-> "dip", len |-> 199]
    /\ ~LastRow.RSI.nan
    /\ orders = << >>

\* C5: when get_last_buy_time returned a time less than 720 hours before now,
\* no order of either side is submitted; when it returned a time 720 hours or
\* more before now, or None, and the data and balance gates pass and the buy
\* condition holds with a quantity above 0, the buy order is submitted.
C5_CooldownGate ==
    /\ (/\ PastBalanceGate
        /\ last.last_buy_time.t # NoTime
        /\ last.hour - last.last_buy_time.t < 720)
       => /\ last.posted = << >>
          /\ last.sent = << >>
    /\ (/\ PastCooldownGate
        /\ BuyConditionMet
        /\ (last.balance[1] * 2) \div (100 * LastRow.Close) > 0)
       => /\ Len(last.posted) = 1
          /\ last.posted[1].side = "buy"
          /\ last.posted[1].symbol = last.symbol

\* A was bought 100 hours ago; its buy condition holds again (the position
\* query was refused, so the quantity read is 0) and the gate holds it
C5_Witness ==
    /\ PastBalanceGate
    /\ last.symbol = SymA
    /\ last.hour - last.last_buy_time.t = 100
    /\ BuyConditionMet
    /\ last.balance = <<10000>>
    /\ last.posted = << >>

\* C6: past the three gates, when the buy condition holds, exactly one buy
\* order of floor(balance * 0.02 / latest close) shares is submitted if that
\* is above 0 and nothing is submitted if it is 0; 10000 and 45 give 4.  No
\* buy order has quantity 0 or costs more than 2% of the balance read.
C6_BuySizing ==
    /\ (PastCooldownGate /\ BuyConditionMet) =>
        LET shares == (last.balance[1] * 2) \div (100 * LastRow.Close)
        IN  IF shares > 0
            THEN last.posted = <<[symbol |-> last.symbol, qty |-> shares,
                                  side |-> "buy"]>>
            ELSE last.posted = << >>
    /\ \A k \in DOMAIN last.posted :
        last.posted[k].side = "buy" =>
            /\ last.posted[k].qty > 0
            /\ last.posted[k].qty * LastRow.Close * 100 <= last.balance[1] * 2
    /\ (PastCooldownGate /\ BuyConditionMet /\ last.balance = <<10000>>
            /\ LastRow.Close = 45)
        => last.posted[1].qty = 4

\* balance 10000, latest close 45: a buy order of 4 shares of A
C6_Witness ==
    /\ PastCooldownGate
    /\ BuyConditionMet
    /\ last.balance = <<10000>>
    /\ LastRow.Close = 45
    /\ last.posted = <<[symbol |-> SymA, qty |-> 4, side |-> "buy"]>>

\* with a balance of 100 the quantity is 0 and nothing is submitted
C6_WitnessNoFunds ==
    /\ PastCooldownGate
    /\ BuyConditionMet
    /\ last.balance = <<100>>
    /\ last.posted = << >>

\* C7: past the three gates, when the sell condition holds, a sell order for
\* exactly the held quantity is submitted, whatever the purchase date (the
\* last filled buy time) is, and with a warning when the holding period is
\* under 365 days.
C7_SellAlwaysSubmitted ==
    (PastCooldownGate /\ SellConditionMet) =>
        /\ last.posted = <<[symbol |-> last.symbol,
                            qty |-> last.position_qty[1], side |-> "sell"]>>
        /\ ~last.raised
        /\ (\/ last.last_buy_time.t = NoTime
            \/ (last.hour - last.last_buy_time.t) \div 24 < 365) => last.warned

\* the sell order goes out when the purchase date is unknown
C7_SoldWithUnknownPurchaseDate ==
    /\ PastCooldownGate
    /\ SellConditionMet
    /\ last.last_buy_time.t = NoTime
    /\ last.posted = <<[symbol |-> SymM, qty |-> 50, side |-> "sell"]>>
    /\ last.warned

\* C8: within one run no symbol gets more than one POST to /v2/orders: never
\* a buy and a sell, never one side twice, and no second POST after a
\* rejected one.
C8_AtMostOneOrderPerSymbol ==
    \A s \in Symbols : Cardinality(OrdersFor(s)) <= 1

\* a run ended normally after the broker rejected its buy order of A (an
\* accepted order stays open while the process lives): one POST for A
C8_Witness ==
    /\ pc = "exit"
    /\ status = "success"
    /\ Cardinality(OrdersFor(SymA)) = 1
    /\ orders[1].side = "buy"
    /\ open[SymA] = << >>

\* C9: however many symbols are evaluated while the balance is <= 0, the
\* account-level alert is sent at most once in a run.
C9_AlertOncePerRun == Cardinality(Alerts) <= 1

\* C10: a run that obtained the universe ends only after every symbol that is
\* not excluded has been fetched and evaluated (or has failed), with the cache
\* saved at the end.
C10_FailureContained ==
    (pc = "exit" /\ trace # << >>) =>
        /\ \A s \in Tradable :
            \E k \in DOMAIN trace :
                /\ trace[k].symbol = s
                /\ trace[k].ev \in {"eval", "raise"}
        /\ LastStep = Step("save", << >>)

\* C11: whenever the process dies inside save_cache, CACHE_FILE afterwards
\* holds a complete store (the previous one or the new one), never a
\* truncated one that the next load_cache reads.
C11_AtomicPersist == file.exists => ~file.torn

\* C12: a process that finds CACHE_FILE truncated goes on from load_cache
\* with an empty store instead of ending there.
C12_CorruptStoreTolerated ==
    (file.exists /\ file.torn /\ LastStep = Step("load", << >>))
        => /\ pc = "clear"
           /\ status = "running"
           /\ cache = EmptyStore

\* C13: when a run has ended normally, the store it saved holds, for every
\* symbol it submitted an order for, trade metadata next to the price series.
C13_TradeMetadataRecorded ==
    (pc = "exit" /\ status = "success") =>
        \A k \in DOMAIN orders :
            /\ orders[k].symbol \in DOMAIN file.store.entries
            /\ DOMAIN file.store.entries[orders[k].symbol] \ {"data"} # {}

\* C14: the series held for a symbol, in memory and in CACHE_FILE, is the
\* frame the data source returned: the indicator columns are never added to it.
C14_SeriesImmutable ==
    /\ \A s \in DOMAIN cache.entries : ~cache.entries[s].data.enriched
    /\ \A s \in DOMAIN file.store.entries :
        ~file.store.entries[s].data.enriched

\* C15: a buy order for a symbol is submitted only when every buy order of
\* that symbol that the broker accepted earlier and has not yet filled was
\* submitted 720 hours or more before.
C15_BuyStep ==
    (/\ pc = "exec"
     /\ last'.posted # << >>
     /\ last'.posted[1].side = "buy")
    => \A k \in DOMAIN open[SP500[idx]] :
            open[SP500[idx]][k].side = "buy"
                => now - open[SP500[idx]][k].submitted_at >= 720

C15_NoSecondBuyInCooldown == [][C15_BuyStep]_vars

\* C16: a run that could not load the cache, or whose account query raised,
\* submits no order afterwards, and an evaluation in which the order-history
\* query or the position query was refused submits no order.
C16_FatalFailuresAbort ==
    /\ (status = "aborted" /\ LastStep = Step("load", << >>)) => orders = << >>
    /\ (status = "aborted" /\ trace = << >>) => orders = << >>
    /\ (Called /\ last.raised) => last.posted = << >>
    /\ (Called /\ last.refused # {}) => last.posted = << >>

\* a refused account query does end the run with no order submitted
C16_AccountFailureAborts ==
    /\ status = "aborted"
    /\ Called
    /\ last.raised
    /\ last.balance = << >>
    /\ orders = << >>

\* C17: an evaluation that passes the data, balance and cooldown gates with
\* neither the buy nor the sell condition true submits no order and sends no
\* notification; an evaluation that submits no order sends no order
\* notification, leaves the broker's orders alone and changes the keys of the
\* symbol's cache entry in nothing (no trade metadata); and an order is only
\* ever submitted past the gates, a buy under the buy condition and a sell
\* under the sell condition.
C17_AfterCall ==
    /\ (PastCooldownGate /\ ~BuyConditionMet /\ ~SellConditionMet)
        => /\ last.posted = << >>
           /\ last.sent = << >>
           /\ ~last.raised
    /\ last.posted = << >>
        => \A k \in DOMAIN last.sent : last.sent[k].kind \notin {"buy", "sell"}
    /\ last.posted # << >>
        => /\ PastCooldownGate
           /\ Len(last.posted) = 1
           /\ last.posted[1].side = "buy" => BuyConditionMet
           /\ last.posted[1].side = "sell" => SellConditionMet /\ ~BuyConditionMet

C17_HoldStep ==
    (pc = "exec" /\ last'.posted = << >>)
        => /\ orders' = orders
           /\ open' = open
           /\ DOMAIN cache'.entries[SP500[idx]] = DOMAIN cache.entries[SP500[idx]]
           /\ file' = file

C17_HoldNoEffects == [][C17_AfterCall' /\ C17_HoldStep]_vars

\* M (50 shares held, bought 800 hours ago) on 200 rising bars: 50_MA above
\* 200_MA and RSI 100, so neither condition holds and nothing is done
C17_Witness ==
    /\ PastCooldownGate
    /\ ~BuyConditionMet
    /\ ~SellConditionMet
    /\ last.symbol = SymM
    /\ last.position_qty = <<50>>
    /\ last.exit = "noaction"
    /\ orders = << >>
    /\ sms = << >>
    /\ DOMAIN cache.entries[SymM] = {"data"}

\* C18: the steps of a run come in the order universe, load, clear, then for
\* each symbol that does not start with BRK or BF, in the order of the
\* universe, its fetch (or cache hit) followed by its evaluation, then one
\* final save; a run that ends normally has evaluated each of these symbols
\* exactly once, and CACHE_FILE then holds the store with today's marker and
\* an entry for each of them.
C18_Processed == SelectSeq(SP500, LAMBDA s : ~OnDenylist(s))

C18_Events == SelectSeq(trace, LAMBDA e : e.ev # "skip")

C18_RunOrdering ==
    /\ Len(C18_Events) <= 4 + 2 * Len(C18_Processed)
    /\ \A k \in DOMAIN C18_Events :
        LET e == C18_Events[k]
            j == (k - 2) \div 2
        IN  IF k = 1 THEN e = Step("universe", << >>)
            ELSE IF k = 2 THEN e = Step("load", << >>)
            ELSE IF k = 3 THEN e = Step("clear", << >>)
            ELSE IF k = 4 + 2 * Len(C18_Processed)
            THEN e.ev \in {"save", "crash"} /\ e.symbol = << >>
            ELSE /\ e.symbol = C18_Processed[j]
                 /\ IF k % 2 = 0 THEN e.ev \in {"fetch", "hit", "crash"}
                    ELSE e.ev \in {"eval", "raise"}
    /\ (pc = "exit" /\ status = "success") =>
        /\ Len(C18_Events) = 4 + 2 * Len(C18_Processed)
        /\ \A j \in DOMAIN C18_Processed :
            /\ Cardinality({k \in DOMAIN trace :
                    trace[k] = Step("eval", C18_Processed[j])}) = 1
            /\ C18_Processed[j] \in DOMAIN file.store.entries
        /\ LastStep = Step("save", << >>)
        /\ file.exists /\ ~file.torn
        /\ file.store = cache
        /\ file.store.date = now \div 24
        /\ DOMAIN file.store.entries = {C18_Processed[j] : j \in DOMAIN C18_Processed}

\* a run on a later date ended normally: A and M were evaluated once each and
\* the file holds both under the new date
C18_Witness ==
    /\ pc = "exit"
    /\ status = "success"
    /\ advances = 1
    /\ Len(trace) = 9
    /\ trace[9] = Step("save", << >>)
    /\ file.store.date = DateOf(now)
    /\ file.store.date # DateOf(StartHour)
    /\ DOMAIN file.store.entries = {SymA, SymM}

\* C19: a symbol of the universe whose name starts with BRK or BF is only
\* ever skipped: it is never fetched, looked up or evaluated, has no entry in
\* the cache or in CACHE_FILE, and no order or notification names it; no
\* other symbol is skipped, and a run that ends normally has fetched (or
\* found) and evaluated every other symbol.
C19_Denylist ==
    \A s \in Symbols :
        IF OnDenylist(s)
        THEN /\ \A k \in DOMAIN trace :
                    trace[k].symbol = s => trace[k].ev = "skip"
             /\ s \notin DOMAIN cache.entries
             /\ s \notin DOMAIN file.store.entries
             /\ \A k \in DOMAIN orders : orders[k].symbol # s
             /\ \A k \in DOMAIN sms : sms[k].symbol # s
             /\ last.symbol # s
             /\ (pc = "exit" /\ status = "success")
                    => \E k \in DOMAIN trace : trace[k] = Step("skip", s)
        ELSE /\ \A k \in DOMAIN trace : trace[k] # Step("skip", s)
             /\ (pc = "exit" /\ status = "success")
                    => /\ \E k \in DOMAIN trace :
                            trace[k].symbol = s /\ trace[k].ev \in {"fetch", "hit"}
                       /\ \E k \in DOMAIN trace : trace[k] = Step("eval", s)

\* BRK.B was skipped and the loop went on to M, which got its sell order
C19_Witness ==
    /\ \E k \in DOMAIN trace : trace[k] = Step("skip", SymBRK)
    /\ LastStep = Step("eval", SymM)
    /\ \E k \in DOMAIN orders : orders[k].symbol = SymM
    /\ DOMAIN cache.entries = {SymA, SymM}

\* C20: while a process that has not died inside save_cache runs, CACHE_FILE
\* holds, under the run's date, the series of every symbol the process has
\* fetched; and a process that finds in CACHE_FILE an entry of today's date
\* for a symbol has it in its store when it comes to that symbol, so that the
\* symbol is not fetched again.
C20_FileHasFetched ==
    /\ (pc \in {"loop", "exec", "exit"} /\ status # "crashed") =>
        \A k \in DOMAIN trace :
            trace[k].ev = "fetch" =>
                /\ file.exists /\ ~file.torn
                /\ file.store.date = today_str
                /\ trace[k].symbol \in DOMAIN file.store.entries
                /\ "data" \in DOMAIN file.store.entries[trace[k].symbol]
                /\ file.store.entries[trace[k].symbol].data.frame
                        = cache.entries[trace[k].symbol].data.frame
    /\ (pc \in {"loop", "exec"} /\ file.store.date = now \div 24) =>
        \A s \in DOMAIN file.store.entries :
            /\ s \in DOMAIN cache.entries
            /\ "data" \in DOMAIN cache.entries[s]

C20_NoRefetch ==
    (/\ pc = "loop"
     /\ idx <= Len(SP500)
     /\ file.exists /\ ~file.torn
     /\ file.store.date = now \div 24
     /\ SP500[idx] \in DOMAIN file.store.entries)
    => /\ remoteCalls' = remoteCalls
       /\ pc' = "exec" => trace' = Append(trace, Step("hit", SP500[idx]))

C20_FetchedDataSurvives == [][C20_FileHasFetched' /\ C20_NoRefetch]_vars

\* the first run fetched A and was aborted at its evaluation (M was never
\* fetched); the second run, on the same date, takes A from the cache
C20_Witness ==
    /\ runs = 2
    /\ advances = 0
    /\ pc = "exec"
    /\ LastStep = Step("hit", SymA)
    /\ DOMAIN file.store.entries = {SymA}
    /\ remoteCalls = (SymA :> 1) @@ (SymM :> 0)

====
